---- MODULE Spec2Model ----
(***************************************************************************)
(* Model of src/src/model.py: the ClassificationModel LightningModule.     *)
(*                                                                         *)
(* Two specifications share the variables:                                 *)
(*   Spec       - construction (__init__) from bounded constructor         *)
(*                arguments, followed by configure_optimizers;             *)
(*   SpecTrain  - a constructed model driven by the training loop through  *)
(*                training_step / validation_step / test_step.             *)
(*                                                                         *)
(* Calls into external libraries (transformers, peft, wandb, gact, torch)  *)
(* are recorded, in program order, in the call logs `calls` (constructor)  *)
(* and `events` (last step).  They are assumed to return normally.         *)
(***************************************************************************)
EXTENDS Integers, Sequences, FiniteSets, TLC

VARIABLES
    args,           \* the constructor arguments (self.<name> after lines 106-132)
    status,         \* "new" | "constructed" | "failed" | "crashed"
    err,            \* the exception that ended __init__ / a step, or NoErr
    calls,          \* external calls made by __init__, in order
    params,         \* self.net.named_parameters(): name -> requires_grad
    loaded,         \* history: requires_grad flags before "Prepare model" (line 187)
    peft,           \* whether self.net is the get_peft_model wrapper
    cfg,            \* outcome of configure_optimizers
    train_step,     \* self.train_step
    val_step,       \* self.val_step
    has_partial,    \* whether the attributes partial_x / partial_y exist
    partial_x,      \* self.partial_x
    partial_y,      \* self.partial_y
    events,         \* external calls made by the last step, in order
    wandb_records,  \* the dicts the last step passed to wandb.log, in order
    last_mode,      \* the mode of the last step, "none" before any step
    replayed,       \* what gact_backward ran on during the last step
    n_steps,        \* history: number of steps performed, by mode
    prev_train,     \* history: partial batch of the latest completed training step
    before_train    \* history: prev_train as it was when the last step began

vars == << args, status, err, calls, params, loaded, peft, cfg, train_step,
           val_step, has_partial, partial_x, partial_y, events, wandb_records,
           last_mode, replayed, n_steps, prev_train, before_train >>

-----------------------------------------------------------------------------
(* Bounds of the model *)

MaxSteps == 4       \* steps the training loop performs in SpecTrain
MaxBatch == 9       \* size of the largest batch (larger than PartialLen)

(* x[:8], y[:8] *)
PartialLen == 8

-----------------------------------------------------------------------------
(* Plain helpers *)

Min(a, b) == IF a < b THEN a ELSE b

(* Python's s[:n] *)
Take(s, n) == SubSeq(s, 1, Min(n, Len(s)))

(* Position of the first occurrence of e in s, 0 when absent *)
IndexOf(s, e) ==
    IF \E i \in 1..Len(s) : s[i] = e
    THEN CHOOSE i \in 1..Len(s) : s[i] = e /\ \A j \in 1..(i - 1) : s[j] # e
    ELSE 0

Has(s, e) == \E i \in 1..Len(s) : s[i] = e

NoErr == [type |-> "none", about |-> "none"]

-----------------------------------------------------------------------------
(* MODEL_DICT *)

MODEL_DICT ==
    [k \in { "vit-b16-224-in21k", "vit-b32-224-in21k", "vit-l32-224-in21k",
             "vit-l15-224-in21k", "vit-h14-224-in21k", "vit-b16-224",
             "vit-l16-224", "vit-b16-384", "vit-b32-384", "vit-l16-384",
             "vit-l32-384", "vit-b16-224-dino", "vit-b8-224-dino",
             "vit-s16-224-dino", "vit-s8-224-dino", "beit-b16-224-in21k",
             "beit-l16-224-in21k" } |->
        CASE k = "vit-b16-224-in21k"  -> "google/vit-base-patch16-224-in21k"
          [] k = "vit-b32-224-in21k"  -> "google/vit-base-patch32-224-in21k"
          [] k = "vit-l32-224-in21k"  -> "google/vit-large-patch32-224-in21k"
          [] k = "vit-l15-224-in21k"  -> "google/vit-large-patch16-224-in21k"
          [] k = "vit-h14-224-in21k"  -> "google/vit-huge-patch14-224-in21k"
          [] k = "vit-b16-224"        -> "google/vit-base-patch16-224"
          [] k = "vit-l16-224"        -> "google/vit-large-patch16-224"
          [] k = "vit-b16-384"        -> "google/vit-base-patch16-384"
          [] k = "vit-b32-384"        -> "google/vit-base-patch32-384"
          [] k = "vit-l16-384"        -> "google/vit-large-patch16-384"
          [] k = "vit-l32-384"        -> "google/vit-large-patch32-384"
          [] k = "vit-b16-224-dino"   -> "facebook/dino-vitb16"
          [] k = "vit-b8-224-dino"    -> "facebook/dino-vitb8"
          [] k = "vit-s16-224-dino"   -> "facebook/dino-vits16"
          [] k = "vit-s8-224-dino"    -> "facebook/dino-vits8"
          [] k = "beit-b16-224-in21k" -> "microsoft/beit-base-patch16-224-pt22k-ft22k"
          [] k = "beit-l16-224-in21k" -> "microsoft/beit-large-patch16-224-pt22k-ft22k"]

-----------------------------------------------------------------------------
(* Constructor arguments the control flow of the module depends on *)

ModelNames   == { "vit-b16-224-in21k", "vit-l16-224-in21k", "resnet50" }
Optimizers   == { "adam", "adamw", "sgd", "adamw4bit", "rmsprop" }
Schedulers   == { "cosine", "none", "linear" }
TrainingModes == { "full", "linear", "lora", "prompt" }
WeightPaths  == { "None", "linear.ckpt" }

Args ==
    [ model_name    : ModelNames,
      optimizer     : Optimizers,
      scheduler     : Schedulers,
      training_mode : TrainingModes,
      from_scratch  : BOOLEAN,
      use_4bit      : BOOLEAN,
      weights       : WeightPaths,
      open_gact     : BOOLEAN ]

(* Parameter names of the network, cut into fragments so that the substring
   test `"classifier" in name` is a test on fragments.                      *)
ParamNames ==
    { << "vit.encoder.layer.0.attention.query.weight" >>,
      << "vit.pre_", "classifier", "_norm.weight" >>,
      << "classifier", ".weight" >>,
      << "classifier", ".bias" >> }

(* `sub in name` *)
Contains(name, sub) == \E i \in 1..Len(name) : name[i] = sub

(* The parameters owned by the attribute self.net.classifier *)
InClassifierModule(name) == name[1] = "classifier"

ParamFlags == [ParamNames -> BOOLEAN]

-----------------------------------------------------------------------------
(* __init__, lines 104-280.  The constructor is a sequence of stages over a
   construction record c; a stage that runs after an exception was raised is
   skipped, which is how the exception leaves __init__.                    *)

NewConstruction(flags) ==
    [ err |-> NoErr, calls |-> << >>, model_path |-> "unset", params |-> flags,
      peft |-> FALSE, train_step |-> 0, val_step |-> 0 ]

Raise(c, type, about) == [c EXCEPT !.err = [type |-> type, about |-> about]]

Call(c, names) == [c EXCEPT !.calls = @ \o names]

(* lines 134-140: model_path = MODEL_DICT[self.model_name] *)
LookupModelAnyName(a, c) ==
    [c EXCEPT !.model_path = "google/vit-base-patch16-224-in21k"]

LookupModel(a, c) ==
    IF a.model_name \in DOMAIN MODEL_DICT
    THEN [c EXCEPT !.model_path = MODEL_DICT[a.model_name]]
    ELSE Raise(c, "ValueError", "model")

(* lines 142-169: Initialize network.  `flags` are the requires_grad flags of
   the network the library hands back. *)
InitNetworkNoAssert(a, c) ==
    IF c.err # NoErr THEN c
    ELSE IF a.from_scratch
    THEN [ Call(c, << "AutoConfig.from_pretrained", "from_config", "Linear" >>)
             EXCEPT !.params = [n \in DOMAIN @ |->
                                  IF InClassifierModule(n) THEN TRUE ELSE @[n]] ]
    ELSE IF a.use_4bit
    THEN Call(c, << "BitsAndBytesConfig", "from_pretrained" >>)
    ELSE Call(c, << "from_pretrained" >>)

InitNetwork(a, c) ==
    IF c.err # NoErr THEN c
    ELSE IF a.from_scratch
    THEN [ Call(c, << "AutoConfig.from_pretrained", "from_config", "Linear" >>)
             EXCEPT !.params = [n \in DOMAIN @ |->
                                  IF InClassifierModule(n) THEN TRUE ELSE @[n]] ]
    ELSE IF a.use_4bit
    THEN IF a.training_mode # "full"
         THEN Call(c, << "BitsAndBytesConfig", "from_pretrained" >>)
         ELSE Raise(c, "AssertionError", "4bit")
    ELSE Call(c, << "from_pretrained" >>)

(* lines 173-185: Load checkpoint weights *)
LoadWeights(a, c) ==
    IF c.err # NoErr THEN c
    ELSE IF a.weights # "None"
    THEN Call(c, << "torch.load", "load_state_dict" >>)
    ELSE c

(* lines 190-192: freeze every parameter whose name lacks "classifier" *)
FreezeAll(p) ==
    [n \in DOMAIN p |-> FALSE]

FreezeBackbone(p) ==
    [n \in DOMAIN p |-> IF ~Contains(n, "classifier") THEN FALSE ELSE p[n]]

(* lines 187-209: Prepare model depending on fine-tuning mode *)
PrepareModeLenient(a, c) ==
    IF c.err # NoErr THEN c
    ELSE IF a.training_mode = "linear"
    THEN [c EXCEPT !.params = FreezeBackbone(@)]
    ELSE IF a.training_mode = "lora"
    THEN [Call(c, << "LoraConfig", "get_peft_model" >>) EXCEPT !.peft = TRUE]
    ELSE c

PrepareMode(a, c) ==
    IF c.err # NoErr THEN c
    ELSE IF a.training_mode = "linear"
    THEN [c EXCEPT !.params = FreezeBackbone(@)]
    ELSE IF a.training_mode = "lora"
    THEN [Call(c, << "LoraConfig", "get_peft_model" >>) EXCEPT !.peft = TRUE]
    ELSE IF a.training_mode = "full"
    THEN c
    ELSE Raise(c, "ValueError", "training_mode")

(* lines 211-258: metrics, loss, mixup *)
DefineMetrics(a, c) ==
    IF c.err # NoErr THEN c
    ELSE Call(c, << "MetricCollection", "MetricCollection", "MetricCollection",
                    "SoftTargetCrossEntropy", "Mixup" >>)

(* lines 260-271: wandb run and the step counters *)
DefineWandb(a, c) ==
    IF c.err # NoErr THEN c
    ELSE [ Call(c, << "wandb.init", "wandb.define_metric" >>)
             EXCEPT !.train_step = 0, !.val_step = 0 ]

(* lines 273-280: Enable GACT *)
EnableGact(a, c) ==
    IF c.err # NoErr THEN c
    ELSE IF a.open_gact
    THEN Call(c, << "gact.set_optimization_level", "Controller", "install_hook" >>)
    ELSE c

(* the network as it stands when line 187 is reached *)
BeforePrepare(a, flags) ==
    LoadWeights(a, InitNetwork(a, LookupModel(a, NewConstruction(flags))))

Constructed(a, flags) ==
    EnableGact(a, DefineWandb(a, DefineMetrics(a,
        PrepareMode(a, BeforePrepare(a, flags)))))

-----------------------------------------------------------------------------
(* configure_optimizers, lines 364-419 *)

NoCfg == [called |-> FALSE, err |-> NoErr, optimizer |-> "none", scheduler |-> "none"]

OptimizerOf(name) ==
    CASE name = "adam"      -> "Adam"
      [] name = "adamw"     -> "AdamW"
      [] name = "sgd"       -> "SGD"
      [] name = "adamw4bit" -> "lpmm.optim.AdamW"
      [] OTHER              -> "none"

SchedulerOf(name) ==
    CASE name = "cosine" -> "get_cosine_schedule_with_warmup"
      [] name = "none"   -> "LambdaLR"
      [] OTHER           -> "none"

configure_optimizers(a) ==
    IF OptimizerOf(a.optimizer) = "none"
    THEN [called |-> TRUE, err |-> [type |-> "ValueError", about |-> "optimizer"],
          optimizer |-> "none", scheduler |-> "none"]
    ELSE IF SchedulerOf(a.scheduler) = "none"
    THEN [called |-> TRUE, err |-> [type |-> "ValueError", about |-> "scheduler"],
          optimizer |-> "none", scheduler |-> "none"]
    ELSE [called |-> TRUE, err |-> NoErr,
          optimizer |-> OptimizerOf(a.optimizer),
          scheduler |-> SchedulerOf(a.scheduler)]

-----------------------------------------------------------------------------
(* Batches and their preprocessing in shared_step *)

NoReplay == [ran |-> FALSE, x |-> << >>, y |-> << >>]
NoPartial == [set |-> FALSE, x |-> << >>, y |-> << >>]

BatchBases == { 0, 20 }
BatchSizes == { 2, MaxBatch }

BatchX(base, n) == [i \in 1..n |-> [id |-> base + i, aug |-> "raw"]]
BatchY(base, n) == [i \in 1..n |-> [label |-> (base + i) % 2, enc |-> "index"]]

(* self.mixup(x, y): keeps the batch size, mixes the images and returns soft
   targets *)
MixupX(x) == [i \in 1..Len(x) |-> [x[i] EXCEPT !.aug = "mixup"]]
MixupY(y) == [i \in 1..Len(y) |-> [y[i] EXCEPT !.enc = "soft"]]

(* F.one_hot(y, num_classes).float() *)
OneHot(y) == [i \in 1..Len(y) |-> [y[i] EXCEPT !.enc = "one_hot"]]

Modes == { "train", "val", "test" }

-----------------------------------------------------------------------------
(* shared_step, lines 292-334, and gact_backward, lines 285-290 *)

(* line 304: the guard of controller.iterate *)
ShouldIterateEveryStep(open_gact, mode, ts) ==
    open_gact /\ mode = "train"

ShouldIterate(open_gact, mode, ts) ==
    open_gact /\ mode = "train" /\ ts # 1

(* lines 324, 329: the value logged under f"{mode}_step" *)
StepValue(mode, ts, vs) == IF mode = "train" THEN ts ELSE vs

(* getattr(self, f"{mode}_metrics"): metric name -> whether it is a scalar *)
MetricsOf(mode) ==
    IF mode = "test"
    THEN << [name |-> "acc", scalar |-> TRUE],
            [name |-> "acc_top5", scalar |-> TRUE],
            [name |-> "stats", scalar |-> FALSE] >>
    ELSE << [name |-> "acc", scalar |-> TRUE],
            [name |-> "acc_top5", scalar |-> TRUE] >>

(* line 327: len(v.size()) == 0 *)
IsScalar(m) == m.scalar

(* lines 322-329: the dicts handed to wandb.log by one step *)
WandbRecords(mode, ts, vs) ==
    LET scalars == SelectSeq(MetricsOf(mode), IsScalar)
    IN  << [mode |-> mode, metric |-> "loss", step_key |-> mode \o "_step",
            step |-> StepValue(mode, ts, vs)] >>
        \o [i \in 1..Len(scalars) |->
              [mode |-> mode, metric |-> scalars[i].name,
               step_key |-> mode \o "_step",
               step |-> StepValue(mode, ts, vs)]]

(* lines 285-290: the calls gact_backward makes *)
GactBackwardCalls ==
    << "gact_backward", "gact_backward.optimizers", "gact_backward.forward",
       "gact_backward.loss_fn", "gact_backward.optimizer_zero_grad",
       "gact_backward.backward" >>

(* `callback` is whether controller.iterate invokes the function it is given *)
shared_step(base, n, mode, callback) ==
    LET ts == train_step + (IF mode = "train" THEN 1 ELSE 0)
        vs == val_step + (IF mode = "val" THEN 1 ELSE 0)
        x  == IF mode = "train" THEN MixupX(BatchX(base, n)) ELSE BatchX(base, n)
        y  == IF mode = "train" THEN MixupY(BatchY(base, n)) ELSE OneHot(BatchY(base, n))
        pre == << IF mode = "train" THEN "mixup" ELSE "one_hot" >>
        iterate == ShouldIterate(args.open_gact, mode, ts)
        runs == iterate /\ callback
        px == Take(x, PartialLen)
        py == Take(y, PartialLen)
    IN  /\ train_step' = ts
        /\ val_step' = vs
        /\ last_mode' = mode
        /\ n_steps' = [n_steps EXCEPT ![mode] = @ + 1]
        /\ before_train' = prev_train
        /\ UNCHANGED << args, calls, params, loaded, peft, cfg >>
        /\ IF runs /\ ~has_partial
           THEN \* self.partial_x does not exist: gact_backward raises
                /\ status' = "crashed"
                /\ err' = [type |-> "AttributeError", about |-> "partial_x"]
                /\ events' = pre \o << "controller.iterate", "gact_backward",
                                       "gact_backward.optimizers" >>
                /\ wandb_records' = << >>
                /\ replayed' = NoReplay
                /\ UNCHANGED << has_partial, partial_x, partial_y, prev_train >>
           ELSE /\ UNCHANGED << status, err >>
                /\ events' = pre
                     \o (IF iterate THEN << "controller.iterate" >> ELSE << >>)
                     \o (IF runs THEN GactBackwardCalls ELSE << >>)
                     \o << "forward", "loss_fn" >>
                     \o (IF args.open_gact THEN << "set_partial" >> ELSE << >>)
                     \o << "metrics", "log", "wandb.log" >>
                /\ replayed' = IF runs
                               THEN [ran |-> TRUE, x |-> partial_x, y |-> partial_y]
                               ELSE NoReplay
                /\ IF args.open_gact
                   THEN /\ has_partial' = TRUE
                        /\ partial_x' = px
                        /\ partial_y' = py
                   ELSE UNCHANGED << has_partial, partial_x, partial_y >>
                /\ prev_train' = IF mode = "train"
                                 THEN [set |-> TRUE, x |-> px, y |-> py]
                                 ELSE prev_train
                /\ wandb_records' = WandbRecords(mode, ts, vs)

-----------------------------------------------------------------------------
(* Actions *)

StepsDone == n_steps["train"] + n_steps["val"] + n_steps["test"]

CanStep == status = "constructed" /\ StepsDone < MaxSteps

(* ClassificationModel.__init__, lines 104-280 *)
Construct ==
    /\ status = "new"
    /\ \E flags \in ParamFlags :
         LET c == Constructed(args, flags)
         IN  /\ status' = IF c.err = NoErr THEN "constructed" ELSE "failed"
             /\ err' = c.err
             /\ calls' = c.calls
             /\ params' = c.params
             /\ loaded' = BeforePrepare(args, flags).params
             /\ peft' = c.peft
             /\ train_step' = c.train_step
             /\ val_step' = c.val_step
    /\ UNCHANGED << args, cfg, has_partial, partial_x, partial_y, events,
                    wandb_records, last_mode, replayed, n_steps, prev_train,
                    before_train >>

(* the trainer asks for the optimizer and scheduler *)
ConfigureOptimizers ==
    /\ status = "constructed"
    /\ cfg' = configure_optimizers(args)
    /\ UNCHANGED << args, status, err, calls, params, loaded, peft, train_step,
                    val_step, has_partial, partial_x, partial_y, events,
                    wandb_records, last_mode, replayed, n_steps, prev_train,
                    before_train >>

(* line 336-338 *)
training_step ==
    /\ CanStep
    /\ \E base \in BatchBases, n \in BatchSizes, callback \in BOOLEAN :
         shared_step(base, n, "train", callback)

(* lines 340-341 *)
validation_step ==
    /\ CanStep
    /\ \E base \in BatchBases, n \in BatchSizes :
         shared_step(base, n, "val", FALSE)

(* lines 343-344 *)
test_step ==
    /\ CanStep
    /\ \E base \in BatchBases, n \in BatchSizes :
         shared_step(base, n, "test", FALSE)

-----------------------------------------------------------------------------
(* Specifications *)

NoSteps == [m \in Modes |-> 0]

(* Before construction: any combination of the constructor arguments *)
Init ==
    /\ args \in Args
    /\ status = "new"
    /\ err = NoErr
    /\ calls = << >>
    /\ params = [n \in ParamNames |-> TRUE]
    /\ loaded = [n \in ParamNames |-> TRUE]
    /\ peft = FALSE
    /\ cfg = NoCfg
    /\ train_step = 0
    /\ val_step = 0
    /\ has_partial = FALSE
    /\ partial_x = << >>
    /\ partial_y = << >>
    /\ events = << >>
    /\ wandb_records = << >>
    /\ last_mode = "none"
    /\ replayed = NoReplay
    /\ n_steps = NoSteps
    /\ prev_train = NoPartial
    /\ before_train = NoPartial

Next == Construct \/ ConfigureOptimizers

Spec == Init /\ [][Next]_vars

(* A model as __init__ leaves it (default arguments but for open_gact and the
   mode), about to be driven by the training loop *)
TrainArgs ==
    { a \in Args : /\ a.model_name = "vit-b16-224-in21k"
                   /\ a.optimizer = "sgd"
                   /\ a.scheduler = "cosine"
                   /\ a.training_mode \in { "full", "linear" }
                   /\ a.from_scratch = FALSE
                   /\ a.use_4bit = FALSE
                   /\ a.weights = "None" }

InitTrain ==
    /\ args \in TrainArgs
    /\ LET c == Constructed(args, [n \in ParamNames |-> TRUE])
       IN  /\ status = "constructed"
           /\ err = c.err
           /\ calls = c.calls
           /\ params = c.params
           /\ loaded = BeforePrepare(args, [n \in ParamNames |-> TRUE]).params
           /\ peft = c.peft
           /\ train_step = c.train_step
           /\ val_step = c.val_step
    /\ cfg = NoCfg
    /\ has_partial = FALSE
    /\ partial_x = << >>
    /\ partial_y = << >>
    /\ events = << >>
    /\ wandb_records = << >>
    /\ last_mode = "none"
    /\ replayed = NoReplay
    /\ n_steps = NoSteps
    /\ prev_train = NoPartial
    /\ before_train = NoPartial

NextTrain == training_step \/ validation_step \/ test_step

SpecTrain == InitTrain /\ [][NextTrain]_vars

-----------------------------------------------------------------------------
(* Properties of construction and configure_optimizers (checked under Spec) *)

InitReturned == status # "new"

DocumentedOptimizers == { "adam", "adamw", "sgd" }
DocumentedModes == { "full", "linear", "lora" }

(* C1: for every optimizer setting other than adam, adamw, sgd,
   configure_optimizers raises the ValueError about the optimizer and returns
   no optimizer/scheduler configuration.  The code does not do this for
   "adamw4bit". *)
C1_UndocumentedOptimizerRaises ==
    (cfg.called /\ args.optimizer \notin DocumentedOptimizers)
        => /\ cfg.err = [type |-> "ValueError", about |-> "optimizer"]
           /\ cfg.optimizer = "none"
           /\ cfg.scheduler = "none"

(* C2, as claimed: with use_4bit = True and training_mode = "full" no
   combination of the other arguments yields a constructed model. *)
C2_FourBitFullNeverConstructs ==
    (args.use_4bit /\ args.training_mode = "full") => status # "constructed"

(* C2, amended: with use_4bit = True, training_mode = "full" and
   from_scratch = False, construction fails (by the assertion, or by the
   ValueError for an unknown model name) before from_pretrained is called, and
   no model is constructed. *)
C2_FourBitFullPretrainedFails ==
    (InitReturned /\ args.use_4bit /\ args.training_mode = "full"
                  /\ ~args.from_scratch)
        => /\ status = "failed"
           /\ err \in { [type |-> "AssertionError", about |-> "4bit"],
                        [type |-> "ValueError", about |-> "model"] }
           /\ ~Has(calls, "from_pretrained")

C2_Witness ==
    /\ status = "failed"
    /\ err = [type |-> "AssertionError", about |-> "4bit"]
    /\ args.use_4bit /\ args.training_mode = "full" /\ ~args.from_scratch

(* C3: a training_mode other than "full", "linear", "lora" makes construction
   raise ValueError before the metrics, the loss, mixup, the wandb run and the
   GACT controller are created: no run is started, no hook is installed. *)
C3_UnknownModeRaisesEarly ==
    (InitReturned /\ args.training_mode \notin DocumentedModes)
        => /\ status = "failed"
           /\ err.type = "ValueError"
           /\ \A e \in { "MetricCollection", "SoftTargetCrossEntropy", "Mixup",
                         "wandb.init", "wandb.define_metric",
                         "gact.set_optimization_level", "Controller",
                         "install_hook" } : ~Has(calls, e)

C3_Witness ==
    /\ status = "failed"
    /\ err = [type |-> "ValueError", about |-> "training_mode"]
    /\ args.open_gact
    /\ Has(calls, "from_pretrained")

(* C4: a model_name that is no key of MODEL_DICT makes construction raise the
   model ValueError before any network is created or loaded and before any
   checkpoint is read; a model_name that is a key never raises that error. *)
C4_UnknownModelRaisesFirst ==
    InitReturned
        => /\ args.model_name \notin DOMAIN MODEL_DICT
                => /\ status = "failed"
                   /\ err = [type |-> "ValueError", about |-> "model"]
                   /\ calls = << >>
           /\ args.model_name \in DOMAIN MODEL_DICT => err.about # "model"

C4_Witness ==
    /\ status = "failed"
    /\ err = [type |-> "ValueError", about |-> "model"]
    /\ args.model_name = "vit-l16-224-in21k"
    /\ args.weights # "None"

(* C5: after construction in mode "linear" every parameter whose name lacks
   "classifier" has requires_grad = False and every parameter whose name
   contains it keeps its flag; in mode "full" no flag is changed. *)
C5_LinearFreezesBackboneOnly ==
    status = "constructed"
        => /\ args.training_mode = "linear"
                => \A n \in ParamNames :
                      /\ ~Contains(n, "classifier") => params[n] = FALSE
                      /\ Contains(n, "classifier") => params[n] = loaded[n]
           /\ args.training_mode = "full" => params = loaded

C5_Witness ==
    /\ status = "constructed"
    /\ args.training_mode = "linear"
    /\ \E n \in ParamNames : ~Contains(n, "classifier") /\ loaded[n] /\ ~params[n]
    /\ \E n \in ParamNames : Contains(n, "classifier") /\ params[n]
    /\ \E n \in ParamNames : Contains(n, "classifier") /\ ~InClassifierModule(n)
                                /\ ~loaded[n] /\ ~params[n]

-----------------------------------------------------------------------------
(* Properties of the steps (checked under SpecTrain) *)

(* C6: with open_gact, controller.iterate is called in every training step but
   the first since construction, before that step's forward pass, and in no
   validation or test step; gact_backward never finds partial_x unassigned. *)
C6_IterateFromSecondTrainingStep ==
    (args.open_gact /\ last_mode # "none")
        => /\ Has(events, "controller.iterate")
                <=> (last_mode = "train" /\ n_steps["train"] # 1)
           /\ Has(events, "controller.iterate")
                => IndexOf(events, "controller.iterate") < IndexOf(events, "forward")
           /\ status # "crashed"
           /\ replayed.ran => Has(events, "controller.iterate")

C6_Witness ==
    /\ args.open_gact
    /\ last_mode = "train"
    /\ n_steps["train"] = 2
    /\ n_steps["val"] = 1
    /\ Has(events, "controller.iterate")
    /\ replayed.ran

(* C7: the partial batch gact_backward replays in a training step is the
   first (at most 8) samples of the immediately preceding training step's
   batch, whatever validation and test steps ran in between.  The code replays
   the batch of the latest step of any mode. *)
C7_ReplayIsPrecedingTrainingBatch ==
    replayed.ran
        => /\ before_train.set
           /\ replayed.x = before_train.x
           /\ replayed.y = before_train.y

(* C8: train_step and val_step count the training and validation steps
   performed, and every wandb record of a step in mode m carries under
   "<m>_step" the number of mode-m steps performed so far.  The records of a
   test step carry val_step instead. *)
C8_CountersAndLoggedSteps ==
    /\ train_step = n_steps["train"]
    /\ val_step = n_steps["val"]
    /\ \A i \in 1..Len(wandb_records) :
          /\ wandb_records[i].step_key = last_mode \o "_step"
          /\ wandb_records[i].step = n_steps[last_mode]

====
